---- MODULE Spec2Model ----
(***************************************************************************)
(* Model of truss-aws-tools' AMI cleaner: package amiclean (image          *)
(* selection, tag matching, usage detection, purge) and the ami-cleaner    *)
(* command's cleanImages pipeline.  EC2 is the environment: its replies    *)
(* and failures are nondeterministic inputs of the actions.                *)
(***************************************************************************)
EXTENDS Integers, Sequences, FiniteSets, TLC

VARIABLES a, pc, image, request, reply, ret, calls, registered, snapshots,
          snapshotIds, idx, availableImages, purgeList, checked

vars == <<a, pc, image, request, reply, ret, calls, registered, snapshots,
          snapshotIds, idx, availableImages, purgeList, checked>>

(***************************************************************************)
(* Bounds of the model.                                                    *)
(***************************************************************************)
MaxNameLen == 2
MaxTags == 2
MaxTime == 2
MaxReservations == 1
MaxMappings == 2

(***************************************************************************)
(* Go values.                                                              *)
(***************************************************************************)
\* A nil error, and the error an EC2 request can fail with.
NoErr == "nil"
RequestError == "RequestError"

\* A Go slice is nil, or non-nil with its elements (possibly none).
NilSlice == [isNil |-> TRUE, items |-> <<>>]
Slice(s) == [isNil |-> FALSE, items |-> s]

\* Placeholders for "no value yet" in the recorded call state.
None == "none"

SeqsUpTo(S, n) == UNION {[1..k -> S] : k \in 0..n}

(***************************************************************************)
(* time: instants are naturals, 0 is Go's zero time.Time; a date string is *)
(* its date-time to the second followed by a suffix.  RFC8601 asks for a   *)
(* three-digit fraction and a literal Z.                                   *)
(***************************************************************************)
ZeroTime == 0
Times == ZeroTime..MaxTime

RFC8601 == ".000Z"

DateSuffixes == {".000Z", "Z"}
DateStrings == [seconds : 1..MaxTime, suffix : DateSuffixes]

\* time.Parse(RFC8601, s): the instant, or the zero time and an error.
TimeParse(layout, s) ==
    IF s.suffix = layout
    THEN [t |-> s.seconds, err |-> NoErr]
    ELSE [t |-> ZeroTime, err |-> "ParseError"]

\* t.After(u)
After(t, u) == t > u

(***************************************************************************)
(* strings: image names and the name prefix are sequences of characters.   *)
(***************************************************************************)
Chars == {"a", "b"}
Names == SeqsUpTo(Chars, MaxNameLen)
Prefixes == {<<>>, <<"a">>, <<"a", "b">>}

\* strings.HasPrefix(s, prefix)
HasPrefix(s, prefix) ==
    /\ Len(s) >= Len(prefix)
    /\ SubSeq(s, 1, Len(prefix)) = prefix

(***************************************************************************)
(* ec2 types.                                                              *)
(***************************************************************************)
TagKeys == {"Branch", "Env"}
TagValues == {"master", "dev"}
Tags == [Key : TagKeys, Value : TagValues]

\* EC2 keeps tag keys unique per resource.
TagLists ==
    {s \in SeqsUpTo(Tags, MaxTags) :
        \A i, j \in 1..Len(s) : s[i].Key = s[j].Key => i = j}

ImageIds == {"ami-1", "ami-2"}
SnapshotIds == {"snap-1", "snap-2", "snap-3"}

\* A block device mapping: an EBS device with its snapshot, or a device
\* with no Ebs member (an instance-store volume), Ebs = nil.
NilEbs == [isNil |-> TRUE, SnapshotId |-> None]
Ebs(s) == [isNil |-> FALSE, SnapshotId |-> s]
BlockDeviceMappings == [Ebs : {NilEbs} \cup {Ebs(s) : s \in SnapshotIds}]

RootDeviceTypes == {"ebs", "instance-store"}

\* ec2.Image, the fields the package reads.
MkImage(id, name, date, tags, root, mappings) ==
    [ImageId |-> id, Name |-> name, CreationDate |-> date, Tags |-> tags,
     RootDeviceType |-> root, BlockDeviceMappings |-> mappings]

\* ec2.DescribeInstancesOutput with the request's error.
DescribeInstancesReplies ==
    {[err |-> RequestError, Reservations |-> NilSlice]}
    \cup {[err |-> NoErr, Reservations |-> NilSlice]}
    \cup {[err |-> NoErr, Reservations |-> Slice([i \in 1..n |-> "r"])] :
            n \in 0..MaxReservations}

(***************************************************************************)
(* AMIClean: the receiver's configuration.                                 *)
(***************************************************************************)
AMIClean(prefix, delete, tag, invert, unused, expiration) ==
    [NamePrefix |-> prefix, Delete |-> delete, Tag |-> tag,
     Invert |-> invert, Unused |-> unused, ExpirationDate |-> expiration]

(***************************************************************************)
(* matchTags: the first image tag with the key decides.                    *)
(***************************************************************************)
RECURSIVE matchTagsFrom(_, _, _)
matchTagsFrom(tags, tag, i) ==
    IF i > Len(tags)
    THEN [match |-> FALSE, tag |-> [Key |-> tag.Key, Value |-> "not found"]]
    ELSE IF tag.Key = tags[i].Key
         THEN IF tag.Value = tags[i].Value
              THEN [match |-> TRUE, tag |-> tags[i]]
              ELSE [match |-> FALSE, tag |-> tags[i]]
         ELSE matchTagsFrom(tags, tag, i + 1)

\* A tag-matching slip: the key alone decides.
matchTagsKeyOnly(img, tag) ==
    IF \E i \in 1..Len(img.Tags) : img.Tags[i].Key = tag.Key
    THEN [match |-> TRUE, tag |-> tag]
    ELSE [match |-> FALSE, tag |-> [Key |-> tag.Key, Value |-> "not found"]]

matchTags(img, tag) == matchTagsFrom(img.Tags, tag, 1)

(***************************************************************************)
(* CheckUnused: the DescribeInstances request it sends, and what it makes  *)
(* of the reply.                                                           *)
(***************************************************************************)
FindInstancesInput(img) ==
    [Filters |-> <<[Name |-> "image-id", Values |-> <<img.ImageId>>]>>]

CheckUnused(output) ==
    IF output.err # NoErr
    THEN [unused |-> FALSE, err |-> output.err]
    ELSE IF ~output.Reservations.isNil
         THEN [unused |-> FALSE, err |-> NoErr]
         ELSE [unused |-> TRUE, err |-> NoErr]

(***************************************************************************)
(* CheckImage.  output is EC2's reply to the CheckUnused request, read     *)
(* only when a.Unused is set.                                              *)
(***************************************************************************)
\* A slip: a failed usage check is taken as "unused".
CheckImageIgnoreErr(cfg, img, output) ==
    /\ HasPrefix(img.Name, cfg.NamePrefix)
    /\ ~After(TimeParse(RFC8601, img.CreationDate).t, cfg.ExpirationDate)
    /\ (cfg.Unused => (CheckUnused(output).unused \/ CheckUnused(output).err # NoErr))
    /\ cfg.Invert # matchTags(img, cfg.Tag).match

\* A slip: an unparsable creation date rejects the image, and so does an
\* image created at the expiration date.
CheckImageStrictAge(cfg, img, output) ==
    /\ HasPrefix(img.Name, cfg.NamePrefix)
    /\ TimeParse(RFC8601, img.CreationDate).err = NoErr
    /\ TimeParse(RFC8601, img.CreationDate).t < cfg.ExpirationDate
    /\ (cfg.Unused => (CheckUnused(output).unused /\ CheckUnused(output).err = NoErr))
    /\ cfg.Invert # matchTags(img, cfg.Tag).match

CheckImage(cfg, img, output) ==
    IF ~HasPrefix(img.Name, cfg.NamePrefix)
    THEN FALSE
    ELSE LET imageCreationTime == TimeParse(RFC8601, img.CreationDate).t IN
         IF After(imageCreationTime, cfg.ExpirationDate)
         THEN FALSE
         ELSE IF cfg.Unused /\ CheckUnused(output).err # NoErr
              THEN FALSE
              ELSE IF cfg.Unused /\ ~CheckUnused(output).unused
                   THEN FALSE
                   ELSE cfg.Invert # matchTags(img, cfg.Tag).match

(***************************************************************************)
(* Inputs of the selection functions.                                      *)
(***************************************************************************)
\* The command's tag is the branch tag.
ConfigTags == {[Key |-> "Branch", Value |-> v] : v \in TagValues}

CheckConfigs ==
    {AMIClean(p, FALSE, t, i, u, e) :
        p \in Prefixes, t \in ConfigTags, i \in BOOLEAN, u \in BOOLEAN,
        e \in Times}

CheckImages ==
    {MkImage(id, n, d, t, "ebs", <<>>) :
        id \in ImageIds, n \in Names, d \in DateStrings, t \in TagLists}

(***************************************************************************)
(* Specification of the selection functions: a caller with some            *)
(* configuration calls CheckUnused or CheckImage on an image.              *)
(***************************************************************************)
InitCheck ==
    /\ a \in CheckConfigs
    /\ pc = "idle"
    /\ image = None
    /\ request = None
    /\ reply = None
    /\ ret = None
    /\ calls = <<>>
    /\ registered = {}
    /\ snapshots = {}
    /\ snapshotIds = <<>>
    /\ idx = 0
    /\ availableImages = {}
    /\ purgeList = <<>>
    /\ checked = <<>>

CallCheckUnused ==
    /\ pc = "idle"
    /\ \E img \in CheckImages, output \in DescribeInstancesReplies :
        /\ image' = img
        /\ request' = FindInstancesInput(img)
        /\ reply' = output
        /\ ret' = CheckUnused(output)
    /\ pc' = "CheckUnused"
    /\ UNCHANGED <<a, calls, registered, snapshots, snapshotIds, idx,
                   availableImages, purgeList, checked>>

\* The usage check runs only past the name and age checks, with a.Unused.
ReachesUnusedCheck(cfg, img) ==
    /\ HasPrefix(img.Name, cfg.NamePrefix)
    /\ ~After(TimeParse(RFC8601, img.CreationDate).t, cfg.ExpirationDate)
    /\ cfg.Unused

CallCheckImage ==
    /\ pc = "idle"
    /\ \E img \in CheckImages :
        /\ image' = img
        /\ IF ReachesUnusedCheck(a, img)
           THEN \E output \in DescribeInstancesReplies :
                   /\ request' = FindInstancesInput(img)
                   /\ reply' = output
                   /\ ret' = CheckImage(a, img, output)
           ELSE /\ request' = None
                /\ reply' = None
                /\ ret' = CheckImage(a, img, [err |-> NoErr, Reservations |-> NilSlice])
    /\ pc' = "CheckImage"
    /\ UNCHANGED <<a, calls, registered, snapshots, snapshotIds, idx,
                   availableImages, purgeList, checked>>

NextCheck == CallCheckUnused \/ CallCheckImage

SpecCheck == InitCheck /\ [][NextCheck]_vars

(***************************************************************************)
(* PurgeImage.  The EC2 calls it issues are recorded in calls, each with   *)
(* its input and the error EC2 answered with.                              *)
(***************************************************************************)
\* A slip: no circuit breaker, every image is taken as EBS-backed.
RootIsEbsAlways(img) == TRUE

\* *image.RootDeviceType != "ebs" is the circuit breaker.
RootIsEbs(img) == img.RootDeviceType = "ebs"

\* *blockDevice.Ebs.SnapshotId dereferences a nil Ebs: the loop that
\* builds snapshotIds panics on a mapping without an EBS device.
BuildPanics(img) ==
    \E i \in 1..Len(img.BlockDeviceMappings) :
        img.BlockDeviceMappings[i].Ebs.isNil

BuildSnapshotIds(img) ==
    [i \in 1..Len(img.BlockDeviceMappings) |->
        img.BlockDeviceMappings[i].Ebs.SnapshotId]

DeregisterImageInput(cfg, img) ==
    [DryRun |-> ~cfg.Delete, ImageId |-> img.ImageId]

DeleteSnapshotInput(cfg, snapshot) ==
    [DryRun |-> ~cfg.Delete, SnapshotId |-> snapshot]

\* A slip: a failed call does not end the purge.
CallFailedIgnored(err) == FALSE

\* err != nil after an EC2 call
CallFailed(err) == err # NoErr

Call(api, input, err) == [api |-> api, input |-> input, err |-> err]

Returned(id, err) == [id |-> id, err |-> err]

PurgeConfigs ==
    {AMIClean(<<>>, d, [Key |-> "Branch", Value |-> "master"], FALSE, FALSE, MaxTime) :
        d \in BOOLEAN}

PurgeImages ==
    {MkImage(id, <<"a">>, [seconds |-> 1, suffix |-> RFC8601], <<>>, root, m) :
        id \in ImageIds, root \in RootDeviceTypes,
        m \in SeqsUpTo(BlockDeviceMappings, MaxMappings)}

InitPurge ==
    /\ a \in PurgeConfigs
    /\ pc = "idle"
    /\ image = None
    /\ request = None
    /\ reply = None
    /\ ret = None
    /\ calls = <<>>
    /\ registered = ImageIds
    /\ snapshots = SnapshotIds
    /\ snapshotIds = <<>>
    /\ idx = 0
    /\ availableImages = {}
    /\ purgeList = <<>>
    /\ checked = <<>>

\* PurgeImage up to its first EC2 call: the circuit breaker, the snapshot
\* list, and in dry-run mode the whole call, which only logs.
PurgeImageEnter ==
    /\ pc = "idle"
    /\ \E img \in PurgeImages :
        /\ image' = img
        /\ IF ~RootIsEbs(img)
           THEN /\ pc' = "returned"
                /\ ret' = Returned(img.ImageId, NoErr)
                /\ UNCHANGED <<snapshotIds, idx>>
           ELSE IF BuildPanics(img)
           THEN /\ pc' = "panicked"
                /\ ret' = None
                /\ UNCHANGED <<snapshotIds, idx>>
           ELSE /\ snapshotIds' = BuildSnapshotIds(img)
                /\ idx' = 1
                /\ IF a.Delete
                   THEN /\ pc' = "deregister"
                        /\ ret' = None
                   ELSE /\ pc' = "returned"
                        /\ ret' = Returned(img.ImageId, NoErr)
    /\ UNCHANGED <<a, request, reply, calls, registered, snapshots,
                   availableImages, purgeList, checked>>

\* a.EC2Client.DeregisterImage(deregisterInput)
PurgeImageDeregister ==
    /\ pc = "deregister"
    /\ \E err \in {NoErr, RequestError} :
        /\ calls' = Append(calls,
                Call("DeregisterImage", DeregisterImageInput(a, image), err))
        /\ registered' = IF err = NoErr THEN registered \ {image.ImageId}
                         ELSE registered
        /\ IF CallFailed(err)
           THEN /\ pc' = "returned"
                /\ ret' = Returned("Failed to deregister image", err)
           ELSE IF idx > Len(snapshotIds)
           THEN /\ pc' = "returned"
                /\ ret' = Returned(image.ImageId, NoErr)
           ELSE /\ pc' = "delete"
                /\ ret' = None
    /\ UNCHANGED <<a, image, request, reply, snapshots, snapshotIds, idx,
                   availableImages, purgeList, checked>>

\* a.EC2Client.DeleteSnapshot(deleteInput), one turn of the loop.  EC2
\* cannot delete a snapshot that no longer exists.
PurgeImageDeleteSnapshot ==
    /\ pc = "delete"
    /\ \E err \in {NoErr, RequestError} :
        /\ err = NoErr => snapshotIds[idx] \in snapshots
        /\ calls' = Append(calls,
                Call("DeleteSnapshot", DeleteSnapshotInput(a, snapshotIds[idx]), err))
        /\ snapshots' = IF err = NoErr THEN snapshots \ {snapshotIds[idx]}
                        ELSE snapshots
        /\ IF CallFailed(err)
           THEN /\ pc' = "returned"
                /\ ret' = Returned("Failed to delete snapshot", err)
                /\ idx' = idx
           ELSE IF idx + 1 > Len(snapshotIds)
           THEN /\ pc' = "returned"
                /\ ret' = Returned(image.ImageId, NoErr)
                /\ idx' = idx + 1
           ELSE /\ pc' = "delete"
                /\ ret' = None
                /\ idx' = idx + 1
    /\ UNCHANGED <<a, image, request, reply, registered, snapshotIds,
                   availableImages, purgeList, checked>>

NextPurge == PurgeImageEnter \/ PurgeImageDeregister \/ PurgeImageDeleteSnapshot

SpecPurge == InitPurge /\ [][NextPurge]_vars

(***************************************************************************)
(* Claims about the selection functions, checked under SpecCheck.          *)
(***************************************************************************)
NamePrefixOk == HasPrefix(image.Name, a.NamePrefix)

CreationTime == TimeParse(RFC8601, image.CreationDate).t

AgeOk == ~(CreationTime > a.ExpirationDate)

\* The usage check is off, or CheckUnused returned (true, nil).
UnusedOk == a.Unused => CheckUnused(reply) = [unused |-> TRUE, err |-> NoErr]

CarriesTag ==
    \E i \in 1..Len(image.Tags) :
        image.Tags[i].Key = a.Tag.Key /\ image.Tags[i].Value = a.Tag.Value

CarriesKey == \E i \in 1..Len(image.Tags) : image.Tags[i].Key = a.Tag.Key

TagOk == CarriesTag # a.Invert

C7_CheckUnusedIffNoReservations ==
    pc = "CheckUnused" =>
        /\ request.Filters = <<[Name |-> "image-id", Values |-> <<image.ImageId>>]>>
        /\ ret = [unused |-> TRUE, err |-> NoErr]
            <=> (reply.err = NoErr /\ Len(reply.Reservations.items) = 0)
        /\ (reply.err = NoErr /\ Len(reply.Reservations.items) > 0)
            => ret = [unused |-> FALSE, err |-> NoErr]
        /\ reply.err # NoErr => ret = [unused |-> FALSE, err |-> reply.err]

\* C8: with Unused set, an image that passes the name and age checks and
\* whose usage check failed is not selected, whatever Tag and Invert.
C8_UsageErrorFailsSafe ==
    (/\ pc = "CheckImage"
     /\ a.Unused /\ NamePrefixOk /\ AgeOk
     /\ reply.err # NoErr) => ret = FALSE

C8_Witness ==
    /\ pc = "CheckImage"
    /\ a.Unused /\ NamePrefixOk /\ AgeOk
    /\ reply.err # NoErr
    /\ TagOk
    /\ ret = FALSE

\* C10: an image whose CreationDate does not parse is taken as created at
\* the zero time: for an ExpirationDate later than the zero time it is
\* selected exactly when the name, usage and tag checks pass.  So is an
\* image created exactly at ExpirationDate.
C10_UnparsableDatePassesAge ==
    pc = "CheckImage" =>
        /\ (image.CreationDate.suffix # RFC8601 /\ a.ExpirationDate > ZeroTime)
            => ret = (NamePrefixOk /\ UnusedOk /\ TagOk)
        /\ (image.CreationDate.suffix = RFC8601
                /\ image.CreationDate.seconds = a.ExpirationDate)
            => ret = (NamePrefixOk /\ UnusedOk /\ TagOk)

C10_Witness ==
    /\ pc = "CheckImage"
    /\ image.CreationDate.suffix # RFC8601
    /\ image.CreationDate.seconds > a.ExpirationDate
    /\ a.ExpirationDate > ZeroTime
    /\ ret = TRUE

(***************************************************************************)
(* Claims about PurgeImage, checked under SpecPurge.                       *)
(***************************************************************************)
\* PurgeImage has ended: it returned, or it panicked.
PurgeEnded == pc \in {"returned", "panicked"}

CloudUntouched == registered = ImageIds /\ snapshots = SnapshotIds

AllCallsSucceeded == \A i \in 1..Len(calls) : calls[i].err = NoErr

\* The snapshot IDs of the image's block device mappings, in mapping order.
MappedSnapshots ==
    LET ebs == SelectSeq(image.BlockDeviceMappings, LAMBDA m : ~m.Ebs.isNil)
    IN  [i \in 1..Len(ebs) |-> ebs[i].Ebs.SnapshotId]

\* One DeregisterImage call for the image, then one DeleteSnapshot call
\* for each mapping's snapshot, in mapping order.
PlannedCalls ==
    <<[api |-> "DeregisterImage", id |-> image.ImageId]>>
    \o [i \in 1..Len(MappedSnapshots) |->
            [api |-> "DeleteSnapshot", id |-> MappedSnapshots[i]]]

IssuedCalls ==
    [i \in 1..Len(calls) |->
        [api |-> calls[i].api,
         id |-> IF calls[i].api = "DeregisterImage"
                THEN calls[i].input.ImageId ELSE calls[i].input.SnapshotId]]

\* C3: in dry-run mode PurgeImage issues no call, leaves the registered
\* images and the snapshots as they were, and returns a nil error,
\* whatever the image's root device type and block device mappings.
C3_DryRunNoCallsNilError ==
    (~a.Delete /\ PurgeEnded) =>
        /\ calls = <<>>
        /\ CloudUntouched
        /\ pc = "returned"
        /\ ret.err = NoErr

\* C4: with Delete set, for an EBS-rooted image and when every call
\* succeeds, PurgeImage issues one DeregisterImage call and then one
\* DeleteSnapshot call per block device mapping, in order, and when it is
\* over the image is deregistered and the mappings' snapshots are deleted.
C4_DeleteIssuesPlannedCalls ==
    (/\ a.Delete /\ PurgeEnded
     /\ image.RootDeviceType = "ebs"
     /\ AllCallsSucceeded) =>
        /\ IssuedCalls = PlannedCalls
        /\ image.ImageId \notin registered
        /\ \A i \in 1..Len(MappedSnapshots) : MappedSnapshots[i] \notin snapshots
        /\ pc = "returned"

\* C5: for an image whose root device is not EBS, PurgeImage issues no
\* call and returns a nil error, whatever Delete and the mappings.
C5_NonEbsIsNoOp ==
    (pc # "idle" /\ image.RootDeviceType # "ebs") =>
        /\ calls = <<>>
        /\ CloudUntouched
        /\ pc = "returned"
        /\ ret = [id |-> image.ImageId, err |-> NoErr]

C5_Witness ==
    /\ pc = "returned"
    /\ a.Delete
    /\ image.RootDeviceType # "ebs"
    /\ \E i \in 1..Len(image.BlockDeviceMappings) :
            image.BlockDeviceMappings[i].Ebs.isNil
    /\ \E i \in 1..Len(image.BlockDeviceMappings) :
            ~image.BlockDeviceMappings[i].Ebs.isNil

\* C6: with Delete set, an image ID returned with a nil error is the ID of
\* the image passed in, and a DeregisterImage call for it was issued and
\* succeeded.
C6_ReturnedIdWasDeregistered ==
    (pc = "returned" /\ a.Delete /\ ret.err = NoErr) =>
        /\ ret.id = image.ImageId
        /\ \E i \in 1..Len(calls) :
            /\ calls[i].api = "DeregisterImage"
            /\ calls[i].input.ImageId = image.ImageId
            /\ calls[i].err = NoErr

\* C9: PurgeImage issues each planned call at most once and stops at the
\* first failure: the calls issued are a prefix of the planned calls, only
\* the last can have failed, and then PurgeImage has returned its error; a
\* failed DeregisterImage leaves the image registered and no snapshot
\* call issued, a failed DeleteSnapshot leaves the image deregistered and
\* the snapshots of the mappings from the failed one on undeleted.
C9_StopsAtFirstFailure ==
    calls # <<>> =>
        /\ Len(calls) <= Len(PlannedCalls)
        /\ IssuedCalls = SubSeq(PlannedCalls, 1, Len(calls))
        /\ \A i \in 1..(Len(calls) - 1) : calls[i].err = NoErr
        /\ calls[Len(calls)].err # NoErr =>
            /\ pc = "returned"
            /\ ret.err = calls[Len(calls)].err
            /\ ret.id # image.ImageId
            /\ Len(calls) = 1 =>
                (image.ImageId \in registered /\ snapshots = SnapshotIds)
            /\ Len(calls) > 1 =>
                /\ image.ImageId \notin registered
                /\ snapshots = SnapshotIds \ {MappedSnapshots[j] : j \in 1..(Len(calls) - 2)}

C9_Witness ==
    /\ pc = "returned"
    /\ Len(calls) = 2
    /\ Len(PlannedCalls) = 3
    /\ calls[2].err # NoErr
    /\ MappedSnapshots[2] \in snapshots

(***************************************************************************)
(* The ami-cleaner command: cleanImages fetches the account's images,      *)
(* selects the images to purge, deregisters them and deletes their         *)
(* snapshots.  logger.Fatal ends the process.                              *)
(***************************************************************************)
\* The images EC2 holds, each with its owner.
CloudImages ==
    { [owner |-> "self",
       image |-> MkImage("ami-1", <<"a", "b">>, [seconds |-> 1, suffix |-> ".000Z"],
                         <<[Key |-> "Branch", Value |-> "master"]>>,
                         "ebs", <<[Ebs |-> Ebs("snap-1")]>>)],
      [owner |-> "self",
       image |-> MkImage("ami-2", <<"a">>, [seconds |-> 2, suffix |-> "Z"],
                         <<[Key |-> "Env", Value |-> "dev"],
                           [Key |-> "Branch", Value |-> "dev"]>>,
                         "ebs", <<[Ebs |-> Ebs("snap-2")]>>)],
      [owner |-> "other",
       image |-> MkImage("ami-3", <<"a", "b">>, [seconds |-> 1, suffix |-> ".000Z"],
                         <<[Key |-> "Branch", Value |-> "master"]>>,
                         "ebs", <<[Ebs |-> Ebs("snap-3")]>>)] }

CloudImageIds == {c.image.ImageId : c \in CloudImages}

\* ec2 DescribeImages: the images of the owners asked for, all images when
\* no owner is named.
DescribeImages(input) ==
    {c.image : c \in {d \in CloudImages :
        input.Owners = <<>> \/ \E i \in 1..Len(input.Owners) : input.Owners[i] = d.owner}}

\* A slip: the request names no owner.
GetImagesInputAnyOwner == [Owners |-> <<>>]

\* GetImages asks for the images owned by the account.
GetImagesInput == [Owners |-> <<"self">>]

GetImages(err) ==
    IF err # NoErr
    THEN [output |-> {}, err |-> err]
    ELSE [output |-> DescribeImages(GetImagesInput), err |-> NoErr]

CleanConfigs ==
    {AMIClean(p, d, t, i, u, e) :
        p \in Prefixes, d \in BOOLEAN, t \in ConfigTags, i \in BOOLEAN,
        u \in BOOLEAN, e \in Times}

InitClean ==
    /\ a \in CleanConfigs
    /\ pc = "idle"
    /\ image = None
    /\ request = None
    /\ reply = None
    /\ ret = None
    /\ calls = <<>>
    /\ registered = CloudImageIds
    /\ snapshots = SnapshotIds
    /\ snapshotIds = <<>>
    /\ idx = 0
    /\ availableImages = {}
    /\ purgeList = <<>>
    /\ checked = <<>>

\* availableImages, err := a.GetImages(); a failure is fatal.
cleanImagesGetImages ==
    /\ pc = "idle"
    /\ \E err \in {NoErr, RequestError} :
        /\ ret' = GetImages(err)
        /\ availableImages' = GetImages(err).output
        /\ pc' = IF err # NoErr THEN "fatal" ELSE "find"
    /\ UNCHANGED <<a, image, request, reply, calls, registered, snapshots,
                   snapshotIds, idx, purgeList, checked>>

\* The images already put through CheckImage.
CheckedImages == {checked[i].image : i \in 1..Len(checked)}

\* FindImagesToPurge, one image: CheckImage decides whether it joins the
\* purge list.
FindImagesToPurge ==
    /\ pc = "find"
    /\ \E img \in availableImages \ CheckedImages :
        /\ image' = img
        /\ IF ReachesUnusedCheck(a, img)
           THEN \E output \in DescribeInstancesReplies :
                   /\ request' = FindInstancesInput(img)
                   /\ reply' = output
                   /\ checked' = Append(checked, [image |-> img, reply |-> output])
                   /\ purgeList' = IF CheckImage(a, img, output)
                                   THEN Append(purgeList, img) ELSE purgeList
           ELSE LET output == [err |-> NoErr, Reservations |-> NilSlice] IN
                /\ request' = None
                /\ reply' = None
                /\ checked' = Append(checked, [image |-> img, reply |-> output])
                /\ purgeList' = IF CheckImage(a, img, output)
                                THEN Append(purgeList, img) ELSE purgeList
    /\ UNCHANGED <<a, pc, ret, calls, registered, snapshots, snapshotIds, idx,
                   availableImages>>

\* The snapshot IDs of a list of images, image by image.
RECURSIVE SnapshotIdsOf(_)
SnapshotIdsOf(list) ==
    IF list = <<>> THEN <<>>
    ELSE BuildSnapshotIds(Head(list)) \o SnapshotIdsOf(Tail(list))

\* GetIdsToProcess: the image IDs and the snapshot IDs of the purge list.
GetIdsToProcess ==
    /\ pc = "find"
    /\ availableImages \ CheckedImages = {}
    /\ snapshotIds' = SnapshotIdsOf(purgeList)
    /\ idx' = 1
    /\ pc' = IF ~a.Delete \/ purgeList = <<>> THEN "done" ELSE "deregister"
    /\ UNCHANGED <<a, image, request, reply, ret, calls, registered, snapshots,
                   availableImages, purgeList, checked>>

\* DeregisterImageList, one image ID; a failure is fatal.
DeregisterImageList ==
    /\ pc = "deregister"
    /\ \E err \in {NoErr, RequestError} :
        /\ calls' = Append(calls,
                Call("DeregisterImage", DeregisterImageInput(a, purgeList[idx]), err))
        /\ registered' = IF err = NoErr THEN registered \ {purgeList[idx].ImageId}
                         ELSE registered
        /\ IF CallFailed(err)
           THEN pc' = "fatal" /\ idx' = idx
           ELSE IF idx = Len(purgeList)
           THEN pc' = "delete" /\ idx' = 1
           ELSE pc' = "deregister" /\ idx' = idx + 1
    /\ UNCHANGED <<a, image, request, reply, ret, snapshots, snapshotIds,
                   availableImages, purgeList, checked>>

\* DeleteSnapshotList, one snapshot ID; a failure is fatal.
DeleteSnapshotList ==
    /\ pc = "delete"
    /\ \E err \in {NoErr, RequestError} :
        /\ err = NoErr => snapshotIds[idx] \in snapshots
        /\ calls' = Append(calls,
                Call("DeleteSnapshot", DeleteSnapshotInput(a, snapshotIds[idx]), err))
        /\ snapshots' = IF err = NoErr THEN snapshots \ {snapshotIds[idx]}
                        ELSE snapshots
        /\ IF CallFailed(err)
           THEN pc' = "fatal" /\ idx' = idx
           ELSE IF idx = Len(snapshotIds)
           THEN pc' = "done" /\ idx' = idx
           ELSE pc' = "delete" /\ idx' = idx + 1
    /\ UNCHANGED <<a, image, request, reply, ret, registered, snapshotIds,
                   availableImages, purgeList, checked>>

NextClean ==
    \/ cleanImagesGetImages
    \/ FindImagesToPurge
    \/ GetIdsToProcess
    \/ DeregisterImageList
    \/ DeleteSnapshotList

SpecClean == InitClean /\ [][NextClean]_vars

(***************************************************************************)
(* Claim about a whole run of the command, checked under SpecClean.        *)
(***************************************************************************)
\* The account's own images.
OwnedImages == {c.image : c \in {d \in CloudImages : d.owner = "self"}}

\* The image was fetched and CheckImage, on the reply EC2 gave to its
\* usage check, selects it.
Selected(img) ==
    /\ img \in OwnedImages
    /\ img \in availableImages
    /\ \E i \in 1..Len(checked) :
        checked[i].image = img /\ CheckImage(a, img, checked[i].reply)

ImageSnapshots(img) ==
    {img.BlockDeviceMappings[i].Ebs.SnapshotId : i \in 1..Len(img.BlockDeviceMappings)}

\* C2: over a run of cleanImages, every DeregisterImage call is for an
\* image that GetImages returned among the account's own and that
\* CheckImage selects, every DeleteSnapshot call is for a snapshot of
\* such an image, no image that fails the predicate has a call for it or
\* for its snapshots, and a failed GetImages leaves no call at all.
C2_OnlySelectedImagesPurged ==
    /\ \A i \in 1..Len(calls) :
        \E c \in CloudImages :
            /\ Selected(c.image)
            /\ calls[i].api = "DeregisterImage" => calls[i].input.ImageId = c.image.ImageId
            /\ calls[i].api = "DeleteSnapshot" =>
                    calls[i].input.SnapshotId \in ImageSnapshots(c.image)
    /\ \A c \in CloudImages :
        ~Selected(c.image) =>
            /\ c.image.ImageId \in registered
            /\ ImageSnapshots(c.image) \subseteq snapshots
    /\ (pc # "idle" /\ ret.err # NoErr) => (calls = <<>> /\ pc = "fatal")

C2_Witness ==
    /\ pc = "done"
    /\ a.Unused
    /\ Len(calls) = 2
    /\ "ami-1" \notin registered /\ "snap-1" \notin snapshots
    /\ "ami-2" \in registered /\ "snap-2" \in snapshots

====
